---- MODULE Spec2Model ----
(***************************************************************************)
(* gulp-kitchen-sink: task naming (BuildConfig.createTaskName), action     *)
(* dependencies (ActionDependency), task groups (GulpTaskGroup), the tasks *)
(* module factory (GulpTaskGroup.createTasksModule) and the GroupLoader.   *)
(*                                                                         *)
(* JavaScript strings are sequences of one-character strings, so that      *)
(* concatenation is \o and the ':' separator is an element of the name.    *)
(* A JavaScript value is a record [t, v]: t is its typeof, v its string    *)
(* conversion (what `+` concatenates), or the object's identity.           *)
(***************************************************************************)
EXTENDS Naturals, Sequences, FiniteSets

\* ---------------------------------------------------------------- bounds
MaxGroups == 2
MaxRegs == 3
MaxCalls == 3
MaxDeps == 2
MaxFrameCalls == 2
MaxSinkCalls == 4
MaxKeyCalls == 4
MaxDepCalls == 4

\* ------------------------------------------------------------ JS values
Undefined == [t |-> "undefined", v |-> <<"u","n","d","e","f","i","n","e","d">>]
False == [t |-> "boolean", v |-> <<"f","a","l","s","e">>]
True == [t |-> "boolean", v |-> <<"t","r","u","e">>]

Str(s) == [t |-> "string", v |-> s]

Obj(id) == [t |-> "object", v |-> id]

Fn(id) == [t |-> "function", v |-> id]

\* if(x), !x, x || y, x && y
Truthy(x) == CASE x.t = "undefined" -> FALSE
               [] x.t = "boolean" -> x = True
               [] x.t = "string" -> x.v # <<>>
               [] OTHER -> TRUE

JsOr(x, y) == IF Truthy(x) THEN x ELSE y

JsAnd(x, y) == IF Truthy(x) THEN y ELSE x

JsBool(b) == IF b THEN True ELSE False

\* x + ':' + y on values: string conversion, then concatenation
JsString(x) == x.v

\* ---------------------------------------------------------------- names
less == <<"l","e","s","s">>
fonts == <<"f","o","n","t","s">>
build == <<"b","u","i","l","d">>
hint == <<"h","i","n","t">>
copy == <<"c","o","p","y">>
clean == <<"c","l","e","a","n">>
pfx == <<"p">>
testGroupFallback == <<"t","g","f">>
testAction == <<"t","a">>

\* Object.prototype.toString, which every object made by {} inherits under
\* the key 'toString', and what it returns when called on such an object
toStringName == <<"t","o","S","t","r","i","n","g">>
objectObject == <<"[","o","b","j","e","c","t"," ","O","b","j","e","c","t","]">>

\* the key '__proto__': reading it yields the object's prototype, assigning an
\* object or a function to it replaces the prototype and creates no own key
protoName == <<"_","_","p","r","o","t","o","_","_">>
objectPrototype == <<"O","b","j","e","c","t",".","p","r","o","t","o","t","y","p","e">>
functionToString == <<"F","u","n","c","t","i","o","n","#","t","o","S","t","r","i","n","g">>

\* config objects: the shared singleton and one made with new BuildConfig()
sharedConfig == <<"s","h","a","r","e","d">>
customConfig == <<"c","u","s","t","o","m">>
ConfigIds == {sharedConfig, customConfig}

\* --------------------------------------------------------------- state
VARIABLES
  config,     \* config id -> [groupBeforeAction, defaultPrefixName] (BuildConfig.tasks)
  groups,     \* the GulpTaskGroup objects created so far, by identity (index)
  host,       \* the gulp.task(...) calls received by the host, in order
  loaded,     \* GroupLoader._taskGroups: group name -> group identity
  ret,        \* the last call: operation, arguments, result or thrown error
  left        \* number of state-changing calls the session may still make

vars == <<config, groups, host, loaded, ret, left>>

TASK_NAME_SEPARATOR == <<":">>

\* new BuildConfig(): this.tasks
BuildConfig == [defaultPrefixName |-> False, groupBeforeAction |-> TRUE]

\* createTaskName that takes only an explicit prefix and forgets the default
ConfigCreateTaskNameNoDefault(tasks, groupName, actionName, prefixName) ==
  LET taskName == IF tasks.groupBeforeAction
                    THEN JsString(groupName) \o <<":">> \o JsString(actionName)
                    ELSE JsString(actionName) \o <<":">> \o JsString(groupName)
  IN  IF Truthy(prefixName)
        THEN JsString(prefixName) \o <<":">> \o taskName
        ELSE taskName

\* a createTaskName that joins its parts with '-'
ConfigCreateTaskNameDashed(tasks, groupName, actionName, prefixName) ==
  LET prefix == JsOr(prefixName, tasks.defaultPrefixName)
      taskName == IF tasks.groupBeforeAction
                    THEN JsString(groupName) \o <<"-">> \o JsString(actionName)
                    ELSE JsString(actionName) \o <<"-">> \o JsString(groupName)
  IN  IF Truthy(prefix)
        THEN JsString(prefix) \o <<"-">> \o taskName
        ELSE taskName

\* a createTaskName that joins group and action without the separator
ConfigCreateTaskNameUnseparated(tasks, groupName, actionName, prefixName) ==
  LET prefix == JsOr(prefixName, tasks.defaultPrefixName)
      taskName == IF tasks.groupBeforeAction
                    THEN JsString(groupName) \o JsString(actionName)
                    ELSE JsString(actionName) \o JsString(groupName)
  IN  IF Truthy(prefix)
        THEN JsString(prefix) \o TASK_NAME_SEPARATOR \o taskName
        ELSE taskName

\* BuildConfig.prototype.createTaskName(groupName, actionName, prefixName)
\* on the tasks record `tasks`; the three arguments are JS values
ConfigCreateTaskName(tasks, groupName, actionName, prefixName) ==
  LET prefix == JsOr(prefixName, tasks.defaultPrefixName)
      taskName == IF tasks.groupBeforeAction
                    THEN JsString(groupName) \o TASK_NAME_SEPARATOR \o JsString(actionName)
                    ELSE JsString(actionName) \o TASK_NAME_SEPARATOR \o JsString(groupName)
  IN  IF Truthy(prefix)
        THEN JsString(prefix) \o TASK_NAME_SEPARATOR \o taskName
        ELSE taskName

\* new ActionDependency(groupName, actionName); a bare string entry of a
\* dependency list is the same record with isDep = FALSE
ActionDependency(groupName, actionName) ==
  [isDep |-> TRUE, groupName |-> groupName, actionName |-> actionName]

StringDep(actionName) ==
  [isDep |-> FALSE, groupName |-> Undefined, actionName |-> actionName]

\* isExternalTo without the test that the dependency has a group name at all
IsExternalToAnyOther(dep, group) == JsBool(dep.groupName # group.groupName)

\* ActionDependency.prototype.isExternalTo(gulpTaskGroup): a JS value
IsExternalTo(dep, group) ==
  JsAnd(dep.groupName, JsBool(dep.groupName # group.groupName))

\* new GulpTaskGroup(groupName, config)
GulpTaskGroup(groupName, cfg) ==
  [groupName |-> groupName, config |-> cfg, taskLoaders |-> <<>>, loadersProto |-> <<>>]

\* a group that names its tasks by the policy values a new config has, as if it
\* had taken a copy of them when it was constructed
GroupCreateTaskNameCopied(cs, group, actionName) ==
  ConfigCreateTaskName(BuildConfig, group.groupName, actionName, Undefined)

\* GulpTaskGroup.prototype.createTaskName(actionName), under the config state cs
GroupCreateTaskName(cs, group, actionName) ==
  ConfigCreateTaskName(cs[group.config], group.groupName, actionName, Undefined)

\* a dependency named after the group that resolves it, whatever its own group
DepCreateTaskNameOwnGroup(cs, dep, group) == GroupCreateTaskName(cs, group, dep.actionName)

\* ActionDependency.prototype.createTaskName(gulpTaskGroup)
DepCreateTaskName(cs, dep, group) ==
  IF Truthy(IsExternalTo(dep, group))
    THEN ConfigCreateTaskName(cs[group.config], dep.groupName, dep.actionName, Undefined)
    ELSE GroupCreateTaskName(cs, group, dep.actionName)

\* resolveDepNames that puts each resolved name in front of the earlier ones
RECURSIVE ResolveDepNamesReversed(_, _, _)
ResolveDepNamesReversed(cs, group, deps) ==
  IF deps = <<>> THEN <<>>
  ELSE LET dep == Head(deps)
           name == IF dep.isDep THEN DepCreateTaskName(cs, dep, group)
                   ELSE GroupCreateTaskName(cs, group, dep.actionName)
       IN  ResolveDepNamesReversed(cs, group, Tail(deps)) \o <<name>>

\* GulpTaskGroup.prototype.resolveDepNames(deps)
RECURSIVE ResolveDepNames(_, _, _)
ResolveDepNames(cs, group, deps) ==
  IF deps = <<>> THEN <<>>
  ELSE LET dep == Head(deps)
           name == IF dep.isDep THEN DepCreateTaskName(cs, dep, group)
                   ELSE GroupCreateTaskName(cs, group, dep.actionName)
       IN  <<name>> \o ResolveDepNames(cs, group, Tail(deps))

\* a getActionDep that leaves the group's name out of the dependency
GetActionDepGroupless(group, actionName) == ActionDependency(Undefined, actionName)

\* GulpTaskGroup.prototype.getActionDep(actionName)
GetActionDep(group, actionName) == ActionDependency(group.groupName, actionName)

\* GulpTaskGroup.prototype.listActionNames(): Object.keys(this._taskLoaders)
ListActionNames(group) ==
  [i \in 1..Len(group.taskLoaders) |-> group.taskLoaders[i].actionName]

\* ------------------------------------------------------- input domains
GroupNames == {less, fonts}
ActionNames == {build, hint}
TaskFns == {"f1", "f2"}
PrefixNames == {False, Str(pfx)}
Policies == [defaultPrefixName : PrefixNames, groupBeforeAction : BOOLEAN]

\* dependency lists handed to addAction
DepLists == { <<>>, <<ActionDependency(Str(fonts), Str(copy)), StringDep(Str(clean))>> }

\* ---------------------------------------------------------------- Init
NoArgs == <<>>

Ret(op, g, args, val, threw) ==
  [op |-> op, group |-> g, args |-> args, val |-> val, threw |-> threw]

\* operations that return something and change nothing
QueryOps ==
  {"listActionNames", "getActionDep", "createTaskName", "resolveDepNames",
   "loadedTaskGroups", "availableTaskGroups", "listTaskGroups",
   "config.createTaskName", "isExternalTo", "dep.createTaskName",
   "dep.createTaskName(config)"}

\* a state-changing call counts against the session's length
Call == left > 0 /\ left' = left - 1

\* a query, or a call that throws before it changes anything, does not; it is
\* made of a state that the construction or a state-changing call has left
Query == ret.op \notin QueryOps /\ ~ret.threw /\ left' = left

\* The build file has set the naming policy of the shared config and of its
\* own config, and nothing is registered yet.
Fresh(policies, n) ==
  /\ config \in [ConfigIds -> policies]
  /\ host = <<>>
  /\ loaded = <<>>
  /\ ret = Ret("init", 0, NoArgs, Undefined, FALSE)
  /\ left = n

TwoGroups ==
  \E c2 \in ConfigIds :
    groups = <<GulpTaskGroup(Str(less), sharedConfig), GulpTaskGroup(Str(fonts), c2)>>

\* Two task groups have been constructed: 'less' on the shared config, 'fonts'
\* on the same config object or on the other one; both config objects are as
\* new BuildConfig() leaves them, and the session changes them from there.
Init == Fresh({BuildConfig}, MaxCalls) /\ TwoGroups

\* No task group exists yet: they come from tasks modules. Both config objects
\* are as new BuildConfig() leaves them.
InitLoader == Fresh({BuildConfig}, MaxCalls) /\ groups = <<>>

GroupIds == 1..Len(groups)

\* --------------------------------------------------- naming policy writes
\* config.tasks.groupBeforeAction = b
SetGroupBeforeAction(c, b) ==
  /\ Call
  /\ config[c].groupBeforeAction # b
  /\ config' = [config EXCEPT ![c].groupBeforeAction = b]
  /\ ret' = Ret("setGroupBeforeAction", 0, NoArgs, Undefined, FALSE)
  /\ UNCHANGED <<groups, host, loaded>>

\* config.tasks.defaultPrefixName = p
SetDefaultPrefixName(c, p) ==
  /\ Call
  /\ config[c].defaultPrefixName # p
  /\ config' = [config EXCEPT ![c].defaultPrefixName = p]
  /\ ret' = Ret("setDefaultPrefixName", 0, NoArgs, Undefined, FALSE)
  /\ UNCHANGED <<groups, host, loaded>>

\* ------------------------------------------------------------ task group
\* _createTaskLoaderFn(actionName, actionDeps, taskFn): the closure's captured
\* variables. Three fields are history that no operation reads: definedUnder is
\* the policy in effect when the loader was made, added the arguments of the
\* addAction call that made it, replaced those of the call it has overwritten.
CreateTaskLoaderFn(cs, group, actionName, actionDeps, taskFn) ==
  [actionName |-> actionName, actionDeps |-> actionDeps, taskFn |-> taskFn,
   definedUnder |-> cs[group.config],
   added |-> [actionDeps |-> actionDeps, taskFn |-> taskFn],
   replaced |-> <<>>]

IndexOfAction(loaders, actionName) ==
  IF \E i \in 1..Len(loaders) : loaders[i].actionName = actionName
    THEN CHOOSE i \in 1..Len(loaders) : loaders[i].actionName = actionName
    ELSE 0

\* an assignment that leaves the loader of an existing key in place
PutLoaderKeepsFirst(loaders, loader) ==
  LET i == IndexOfAction(loaders, loader.actionName)
  IN  IF i = 0 THEN Append(loaders, loader)
      ELSE [loaders EXCEPT ![i] =
              [@ EXCEPT !.added = loader.added, !.replaced = <<loaders[i].added>>]]

\* this._taskLoaders[actionName] = loader: an existing key keeps its place
PutLoader(loaders, loader) ==
  LET i == IndexOfAction(loaders, loader.actionName)
  IN  IF i = 0 THEN Append(loaders, loader)
      ELSE [loaders EXCEPT ![i] = [loader EXCEPT !.replaced = <<loaders[i].added>>]]

\* addAction's effect on the group object: argc 2 is (actionName, taskFn),
\* argc 3 is (actionName, actionDeps, taskFn). taskLoaders holds the own keys of
\* this._taskLoaders; loadersProto is <<>> while its prototype is
\* Object.prototype and <<f>> once the assignment has made the function f its
\* prototype
AddActionTo(cs, group, argc, actionName, deps, taskFn) ==
  LET actionDeps == IF argc = 2 THEN <<>> ELSE deps
      loader == CreateTaskLoaderFn(cs, group, actionName, actionDeps, taskFn)
  IN  IF actionName.v = protoName
        THEN [group EXCEPT !.loadersProto = <<loader>>]
        ELSE [group EXCEPT !.taskLoaders = PutLoader(@, loader)]

\* GulpTaskGroup.prototype.addAction
AddAction(g, argc, actionName, deps, taskFn) ==
  /\ Call
  /\ argc = 2 => deps = <<>>
  /\ groups' = [groups EXCEPT ![g] = AddActionTo(config, groups[g], argc, actionName, deps, taskFn)]
  /\ ret' = Ret("addAction", g, <<actionName>>, Undefined, FALSE)
  /\ UNCHANGED <<config, host, loaded>>

\* GulpTaskGroup.prototype.listActionNames
ListActionNamesCall(g) ==
  /\ Query
  /\ ret' = Ret("listActionNames", g, NoArgs, ListActionNames(groups[g]), FALSE)
  /\ UNCHANGED <<config, groups, host, loaded>>

\* GulpTaskGroup.prototype.getActionDep
GetActionDepCall(g, actionName) ==
  /\ Query
  /\ ret' = Ret("getActionDep", g, <<actionName>>, GetActionDep(groups[g], actionName), FALSE)
  /\ UNCHANGED <<config, groups, host, loaded>>

\* GulpTaskGroup.prototype.createTaskName
CreateTaskNameCall(g, actionName) ==
  /\ Query
  /\ ret' = Ret("createTaskName", g, <<actionName>>,
                GroupCreateTaskName(config, groups[g], actionName), FALSE)
  /\ UNCHANGED <<config, groups, host, loaded>>

\* the deps array after resolveDepNames(deps): the loop only reads deps[i] and
\* pushes to a new array
DepsAfterResolve(deps) == deps

\* GulpTaskGroup.prototype.resolveDepNames; args are the deps array as passed
\* and as it is after the call
ResolveDepNamesCall(g, deps) ==
  /\ Query
  /\ ret' = Ret("resolveDepNames", g, <<deps, DepsAfterResolve(deps)>>,
                ResolveDepNames(config, groups[g], deps), FALSE)
  /\ UNCHANGED <<config, groups, host, loaded>>

\* the name the loader closure registers: this.createTaskName(actionName)
TaskLoaderName(cs, group, loader) == GroupCreateTaskName(cs, group, loader.actionName)

\* a loader that resolves the names when the action is defined, not when it is loaded
TaskLoaderCallEager(cs, group, loader) ==
  LET then == [c \in ConfigIds |-> loader.definedUnder]
  IN  [name |-> TaskLoaderName(then, group, loader),
       deps |-> ResolveDepNames(then, group, loader.actionDeps),
       fn |-> loader.taskFn]

\* a loader that registers the task without its dependencies
TaskLoaderCallNoDeps(cs, group, loader) ==
  [name |-> TaskLoaderName(cs, group, loader), deps |-> <<>>, fn |-> loader.taskFn]

\* the loader closure of _createTaskLoaderFn: the gulp.task call it makes
TaskLoaderCall(cs, group, loader) ==
  IF Len(loader.actionDeps) > 0
    THEN [name |-> TaskLoaderName(cs, group, loader),
          deps |-> ResolveDepNames(cs, group, loader.actionDeps),
          fn |-> loader.taskFn]
    ELSE [name |-> TaskLoaderName(cs, group, loader), deps |-> <<>>, fn |-> loader.taskFn]

\* o[key] for a key that is not an own property of o = {}: the member that o
\* inherits from Object.prototype, or undefined
InheritedMember(key) ==
  CASE key = toStringName -> Fn(toStringName)
    [] key = protoName -> Obj(objectPrototype)
    [] OTHER -> Undefined

\* this._taskLoaders[actionName] when it is a task loader: the own key, or the
\* prototype that an addAction('__proto__', ...) has installed
FoundLoader(group, actionName) ==
  LET i == IndexOfAction(group.taskLoaders, actionName)
  IN  IF i # 0 THEN <<group.taskLoaders[i]>>
      ELSE IF actionName.v = protoName THEN group.loadersProto
      ELSE <<>>

\* this._taskLoaders[actionName] when it is no task loader: the member inherited
\* from Object.prototype, or through an installed function from
\* Function.prototype
OtherMember(group, actionName) ==
  IF group.loadersProto = <<>> THEN InheritedMember(actionName.v)
  ELSE IF actionName.v = toStringName THEN Fn(functionToString)
  ELSE Undefined

\* member(gulp) with this._taskLoaders as receiver: only Object.prototype's
\* toString returns; undefined and objects are not callable, and
\* Function.prototype.toString rejects a receiver that is no function
MemberCallThrows(member) == member # Fn(toStringName)

\* GulpTaskGroup.prototype.loadTask(actionName, gulp):
\* return this._taskLoaders[actionName](gulp)
LoadTask(g, actionName) ==
  LET found == FoundLoader(groups[g], actionName)
  IN  IF found = <<>>
        THEN \* no loader under that key: calling undefined throws a TypeError,
             \* calling the inherited toString returns '[object Object]'
             /\ Query
             /\ ret' = IF MemberCallThrows(OtherMember(groups[g], actionName))
                         THEN Ret("loadTask", g, <<actionName>>, Undefined, TRUE)
                         ELSE Ret("loadTask", g, <<actionName>>, objectObject, FALSE)
             /\ UNCHANGED <<config, groups, host, loaded>>
        ELSE /\ Call
             /\ Len(host) < MaxRegs
             /\ host' = Append(host, TaskLoaderCall(config, groups[g], found[1]))
             /\ ret' = Ret("loadTask", g, <<actionName>>,
                           TaskLoaderName(config, groups[g], found[1]), FALSE)
             /\ UNCHANGED <<config, groups, loaded>>

\* a loadAllTasks whose loop stops one action short
LoadAllCallsButLast(cs, group) ==
  [i \in 1..(Len(group.taskLoaders) - 1) |-> TaskLoaderCall(cs, group, group.taskLoaders[i])]

\* a loadAllTasks that registers the actions last to first
LoadAllCallsReversed(cs, group) ==
  [i \in 1..Len(group.taskLoaders) |->
     TaskLoaderCall(cs, group, group.taskLoaders[Len(group.taskLoaders) + 1 - i])]

\* the gulp.task calls of one loadAllTasks, in enumeration order
LoadAllCalls(cs, group) ==
  [i \in 1..Len(group.taskLoaders) |-> TaskLoaderCall(cs, group, group.taskLoaders[i])]

\* the taskNames array loadAllTasks returns
LoadAllNames(cs, group) ==
  [i \in 1..Len(group.taskLoaders) |-> TaskLoaderName(cs, group, group.taskLoaders[i])]

\* GulpTaskGroup.prototype.loadAllTasks(gulp)
LoadAllTasks(g) ==
  /\ Call
  /\ Len(host) + Len(groups[g].taskLoaders) <= MaxRegs
  /\ host' = host \o LoadAllCalls(config, groups[g])
  /\ ret' = Ret("loadAllTasks", g, NoArgs, LoadAllNames(config, groups[g]), FALSE)
  /\ UNCHANGED <<config, groups, loaded>>

\* the error that gulp.task throws when the host rejects a registration
hostError == <<"h","o","s","t"," ","e","r","r","o","r">>

\* a gulp whose task() throws at the i-th call that one operation makes of it
FailingGulp(i) == [failsAt |-> i]

\* a loadAllTasks that undoes its registrations when the host throws
LoadAllCallsRolledBack(cs, group, i) == <<>>

\* the gulp.task calls of a loadAllTasks that have returned when the i-th
\* throws: the loop has no try, so the error ends it
LoadAllCallsBefore(cs, group, i) == SubSeq(LoadAllCalls(cs, group), 1, i - 1)

\* loadTask(actionName, gulp) of a defined action while the host rejects the
\* registration: the loader closure does not catch what gulp.task throws
LoadTaskHostFails(g, actionName) ==
  /\ FoundLoader(groups[g], actionName) # <<>>
  /\ Query
  /\ ret' = Ret("loadTask", g, <<actionName, FailingGulp(1)>>, Str(hostError), TRUE)
  /\ UNCHANGED <<config, groups, host, loaded>>

\* loadAllTasks(gulp) while the host rejects the i-th registration
LoadAllTasksHostFails(g, i) ==
  /\ i \in 1..Len(groups[g].taskLoaders)
  /\ Call
  /\ Len(host) + i - 1 <= MaxRegs
  /\ host' = host \o LoadAllCallsBefore(config, groups[g], i)
  /\ ret' = Ret("loadAllTasks", g, <<FailingGulp(i)>>, Str(hostError), TRUE)
  /\ UNCHANGED <<config, groups, loaded>>

\* ------------------------------------------------- tasks module factory
\* tasks modules: what createTasksModule(groupName, addActionsFn) was given;
\* addActionsFn calls tasks.addAction(actionName, taskFn) for each action
lessTasks ==
  [groupName |-> less,
   actions |-> << [actionName |-> build, taskFn |-> "fBuild"],
                  [actionName |-> hint, taskFn |-> "fHint"] >>]

fontsTasks ==
  [groupName |-> fonts, actions |-> << [actionName |-> copy, taskFn |-> "fCopy"] >>]

testTasks ==
  [groupName |-> testGroupFallback,
   actions |-> << [actionName |-> testAction, taskFn |-> "fNoop"] >>]

\* addActionsFn(tasks, gulp)
RECURSIVE AddActionsFn(_, _, _)
AddActionsFn(cs, group, actions) ==
  IF actions = <<>> THEN group
  ELSE AddActionsFn(cs,
         AddActionTo(cs, group, 2, Str(Head(actions).actionName), <<>>, Head(actions).taskFn),
         Tail(actions))

\* a tasks module function that takes the shared config whatever it is given
ModuleConfigAlwaysShared(cfgArg) == sharedConfig

\* the config parameter after `if(!config) config = require('../shared/config')`
ModuleConfig(cfgArg) == IF ~Truthy(cfgArg) THEN sharedConfig ELSE cfgArg.v

\* `if(!lazyLoad)`: does the tasks module function call loadAllTasks
ModuleLoadsAll(lazyLoad) == ~Truthy(lazyLoad)

\* function(gulp, lazyLoad, config) returned by createTasksModule(groupName,
\* addActionsFn): the group it builds and the gulp.task calls it makes
TasksModuleGroup(cs, module, cfgArg) ==
  AddActionsFn(cs, GulpTaskGroup(Str(module.groupName), ModuleConfig(cfgArg)), module.actions)

TasksModuleCalls(cs, module, lazyLoad, cfgArg) ==
  IF ModuleLoadsAll(lazyLoad)
    THEN LoadAllCalls(cs, TasksModuleGroup(cs, module, cfgArg))
    ELSE <<>>

\* a call of a tasks module function with the arguments (gulp, args[1], args[2],
\* args[3]); the function's parameters are (gulp, lazyLoad, config)
TasksModuleFn(module, args) ==
  LET lazyLoad == args[1]
      cfgArg == args[2]
      made == TasksModuleCalls(config, module, lazyLoad, cfgArg)
  IN  /\ Call
      /\ Len(groups) < MaxGroups
      /\ Len(host) + Len(made) <= MaxRegs
      /\ groups' = Append(groups, TasksModuleGroup(config, module, cfgArg))
      /\ host' = host \o made
      /\ ret' = Ret("tasksModuleFn", Len(groups) + 1, args, Undefined, FALSE)
      /\ UNCHANGED <<config, loaded>>

\* ----------------------------------------------------------- group loader
\* a loader that was given a config object of its own, not the shared one
LoaderConfigOwn == customConfig

\* new GroupLoader(gulp, config, modulesDir) as KitchenSink makes it
LoaderConfig == sharedConfig

tasksSuffix == <<"-","t","a","s","k","s">>
jsExt == <<".","j","s">>

\* fs.readdirSync(modulesDir): the files of the modules directory
ModulesDir ==
  << less \o tasksSuffix \o jsExt,
     fonts \o tasksSuffix \o jsExt,
     less \o <<"-","p","i","p","e","s">> \o jsExt >>

\* a modules directory in which every file exports the 'less' tasks module
ModuleOfFileCopied(file) == lessTasks

\* what require() gives for a file of the modules directory
ModuleOfFile(file) ==
  IF file = less \o tasksSuffix \o jsExt THEN lessTasks ELSE fontsTasks

WordChars ==
  {"a","b","c","d","e","f","g","h","i","j","k","l","m","n","o","p","q","r","s","t",
   "u","v","w","x","y","z","A","B","C","D","E","F","G","H","I","J","K","L","M","N",
   "O","P","Q","R","S","T","U","V","W","X","Y","Z","0","1","2","3","4","5","6","7",
   "8","9","_"}

\* TASK_MODULE_REGEX = /^(\w+)\-tasks\.js$/ : the captured group name, or <<>>
TaskModuleMatch(file) ==
  LET n == Len(file) - Len(tasksSuffix \o jsExt)
  IN  IF /\ n >= 1
         /\ SubSeq(file, n + 1, Len(file)) = tasksSuffix \o jsExt
         /\ \A i \in 1..n : file[i] \in WordChars
        THEN SubSeq(file, 1, n)
        ELSE <<>>

\* GroupLoader.prototype._getModuleName, as require() resolves it to a file
GetModuleName(groupName) == groupName \o tasksSuffix

ModuleFileExists(groupName) ==
  \E i \in 1..Len(ModulesDir) : ModulesDir[i] = GetModuleName(groupName) \o jsExt

\* this._taskGroups[groupName] for the own keys: the cached group's identity, or 0
CachedGroup(cache, groupName) ==
  IF \E i \in 1..Len(cache) : cache[i].groupName = groupName
    THEN cache[CHOOSE i \in 1..Len(cache) : cache[i].groupName = groupName].group
    ELSE 0

\* a getTaskGroup that does not look into this._taskGroups before it loads
GetTaskGroupOnNoCache(cs, st, groupName) ==
  LET module == ModuleOfFile(GetModuleName(groupName) \o jsExt)
      entry == [groupName |-> groupName, group |-> Len(st.groups) + 1]
      at == {i \in 1..Len(st.loaded) : st.loaded[i].groupName = groupName}
  IN  [groups |-> Append(st.groups, TasksModuleGroup(cs, module, Obj(LoaderConfig))),
       loaded |-> IF at = {} THEN Append(st.loaded, entry)
                  ELSE [i \in 1..Len(st.loaded) |-> IF i \in at THEN entry ELSE st.loaded[i]],
       host |-> st.host \o TasksModuleCalls(cs, module, True, Obj(LoaderConfig))]

\* a getTaskGroup that calls the tasks module without the lazy-load flag
GetTaskGroupOnEager(cs, st, groupName) ==
  IF CachedGroup(st.loaded, groupName) # 0 \/ Truthy(InheritedMember(groupName)) THEN st
  ELSE LET module == ModuleOfFile(GetModuleName(groupName) \o jsExt)
       IN  [groups |-> Append(st.groups, TasksModuleGroup(cs, module, Obj(LoaderConfig))),
            loaded |-> Append(st.loaded, [groupName |-> groupName, group |-> Len(st.groups) + 1]),
            host |-> st.host \o TasksModuleCalls(cs, module, Undefined, Obj(LoaderConfig))]

\* GroupLoader.prototype.getTaskGroup on the state st = [groups, loaded, host]:
\* require(...)(this.gulp, true, this.config) when this._taskGroups[groupName]
\* is falsy
GetTaskGroupOn(cs, st, groupName) ==
  IF CachedGroup(st.loaded, groupName) # 0 \/ Truthy(InheritedMember(groupName)) THEN st
  ELSE LET module == ModuleOfFile(GetModuleName(groupName) \o jsExt)
       IN  [groups |-> Append(st.groups, TasksModuleGroup(cs, module, Obj(LoaderConfig))),
            loaded |-> Append(st.loaded, [groupName |-> groupName, group |-> Len(st.groups) + 1]),
            host |-> st.host \o TasksModuleCalls(cs, module, True, Obj(LoaderConfig))]

\* GroupLoader.prototype.getTaskGroup
GetTaskGroup(groupName) ==
  IF CachedGroup(loaded, groupName) = 0 /\ Truthy(InheritedMember(groupName))
    THEN \* the inherited member is truthy: it is returned as the task group
         /\ Query
         /\ ret' = Ret("getTaskGroup", 0, <<groupName>>, InheritedMember(groupName), FALSE)
         /\ UNCHANGED <<config, groups, host, loaded>>
  ELSE IF CachedGroup(loaded, groupName) = 0 /\ ~ModuleFileExists(groupName)
    THEN \* require() throws: Cannot find module
         /\ Query
         /\ ret' = Ret("getTaskGroup", 0, <<groupName>>, Undefined, TRUE)
         /\ UNCHANGED <<config, groups, host, loaded>>
    ELSE LET st == GetTaskGroupOn(config, [groups |-> groups, loaded |-> loaded, host |-> host],
                                  groupName)
         IN  /\ Call
             /\ Len(st.groups) <= MaxGroups
             /\ Len(st.host) <= MaxRegs
             /\ groups' = st.groups
             /\ loaded' = st.loaded
             /\ host' = st.host
             /\ ret' = Ret("getTaskGroup", CachedGroup(st.loaded, groupName), <<groupName>>,
                           Undefined, FALSE)
             /\ UNCHANGED config

\* GroupLoader.prototype.loadedTaskGroups: Object.keys(this._taskGroups)
LoadedTaskGroups == [i \in 1..Len(loaded) |-> loaded[i].groupName]

LoadedTaskGroupsCall ==
  /\ Query
  /\ ret' = Ret("loadedTaskGroups", 0, NoArgs, LoadedTaskGroups, FALSE)
  /\ UNCHANGED <<config, groups, host, loaded>>

\* GroupLoader.prototype.availableTaskGroups
RECURSIVE AvailableIn(_)
AvailableIn(files) ==
  IF files = <<>> THEN <<>>
  ELSE (IF TaskModuleMatch(Head(files)) # <<>> THEN <<TaskModuleMatch(Head(files))>> ELSE <<>>)
       \o AvailableIn(Tail(files))

AvailableTaskGroups == AvailableIn(ModulesDir)

\* a scan that loads the first module it finds
ScanLoadsFirst(st) == GetTaskGroupOn(config, st, AvailableTaskGroups[1])

\* the loader state st = [groups, loaded, host] after the scan: the loop reads
\* the directory and pushes to a local array
ScanLeaves(st) == st

AvailableTaskGroupsCall ==
  LET st == ScanLeaves([groups |-> groups, loaded |-> loaded, host |-> host])
  IN  /\ Query
      /\ ret' = Ret("availableTaskGroups", 0, NoArgs, AvailableTaskGroups, FALSE)
      /\ groups' = st.groups
      /\ loaded' = st.loaded
      /\ host' = st.host
      /\ UNCHANGED config

\* a getAllAvailableTaskGroups whose loop ends after the first name
GetAllOnFirst(cs, st, names) ==
  IF names = <<>> THEN st ELSE GetTaskGroupOn(cs, st, Head(names))

\* GroupLoader.prototype.getAllAvailableTaskGroups: getTaskGroup for each name
RECURSIVE GetAllOn(_, _, _)
GetAllOn(cs, st, names) ==
  IF names = <<>> THEN st
  ELSE GetAllOn(cs, GetTaskGroupOn(cs, st, Head(names)), Tail(names))

GetAllAvailableTaskGroups ==
  LET st == GetAllOn(config, [groups |-> groups, loaded |-> loaded, host |-> host],
                     AvailableTaskGroups)
  IN  /\ Call
      /\ Len(st.groups) <= MaxGroups
      /\ Len(st.host) <= MaxRegs
      /\ groups' = st.groups
      /\ loaded' = st.loaded
      /\ host' = st.host
      /\ ret' = Ret("getAllAvailableTaskGroups", 0, NoArgs,
                    [i \in 1..Len(AvailableTaskGroups) |->
                       CachedGroup(st.loaded, AvailableTaskGroups[i])], FALSE)
      /\ UNCHANGED config

\* ------------------------------------------------------- specifications
\* arguments after gulp of a tasks module function call: as the unit tests
\* call it (groupName, config, lazyLoad) and as its documentation and the
\* GroupLoader call it (lazyLoad, config)
overrideName == <<"m","y">>

ModuleArgs ==
  ({Undefined, Str(overrideName)} \X {Undefined, Obj(customConfig)} \X {Undefined, True, False})
  \cup ({True, False} \X {Undefined, Obj(customConfig)} \X {Undefined})

LoaderNames == {less, fonts, copy, toStringName}

\* action names asked of loadTask
LoadNames == ActionNames \cup {toStringName}

\* writes to the naming policy
PolicyWrites ==
  \/ \E c \in ConfigIds, b \in BOOLEAN : SetGroupBeforeAction(c, b)
  \/ \E c \in ConfigIds, p \in PrefixNames : SetDefaultPrefixName(c, p)

\* defining actions on a task group
AddActions ==
  \E g \in GroupIds, argc \in {2, 3}, a \in ActionNames, d \in DepLists, f \in TaskFns :
    AddAction(g, argc, Str(a), d, f)

\* loading a task group's actions into the host
GroupLoads ==
  \/ \E g \in GroupIds, a \in LoadNames : LoadTask(g, Str(a))
  \/ \E g \in GroupIds : LoadAllTasks(g)

\* tasks modules and the group loader
LoaderCalls ==
  \/ \E m \in {lessTasks, testTasks}, args \in ModuleArgs : TasksModuleFn(m, args)
  \/ \E n \in LoaderNames : GetTaskGroup(n)
  \/ GetAllAvailableTaskGroups

\* the calls that only return something
Queries ==
  \/ \E g \in GroupIds : ListActionNamesCall(g)
  \/ \E g \in GroupIds, a \in ActionNames : GetActionDepCall(g, Str(a))
  \/ \E g \in GroupIds, a \in ActionNames : CreateTaskNameCall(g, Str(a))
  \/ \E g \in GroupIds, d \in DepLists : ResolveDepNamesCall(g, d)
  \/ LoadedTaskGroupsCall
  \/ AvailableTaskGroupsCall

\* loads during which the host rejects a registration
HostFailures ==
  \/ \E g \in GroupIds, a \in ActionNames : LoadTaskHostFails(g, Str(a))
  \/ \E g \in GroupIds, i \in 1..MaxRegs : LoadAllTasksHostFails(g, i)

\* task groups: define actions, change the policy, load
Next == PolicyWrites \/ AddActions \/ GroupLoads

Spec == Init /\ [][Next]_vars

\* tasks modules, the group loader, and loading from the groups they make
NextLoader == PolicyWrites \/ LoaderCalls \/ GroupLoads

SpecLoader == InitLoader /\ [][NextLoader]_vars

\* ------------------------------------------------- the naming functions
\* BuildConfig.prototype.createTaskName, called on config object c
ConfigCreateTaskNameCall(c, groupName, actionName, prefixName) ==
  /\ Query
  /\ ret' = Ret("config.createTaskName", 0, <<c, groupName, actionName, prefixName>>,
                ConfigCreateTaskName(config[c], groupName, actionName, prefixName), FALSE)
  /\ UNCHANGED <<config, groups, host, loaded>>

\* ActionDependency.prototype.isExternalTo
IsExternalToCall(dep, g) ==
  /\ Query
  /\ ret' = Ret("isExternalTo", g, <<dep>>, IsExternalTo(dep, groups[g]), FALSE)
  /\ UNCHANGED <<config, groups, host, loaded>>

\* ActionDependency.prototype.createTaskName
DepCreateTaskNameCall(dep, g) ==
  /\ Query
  /\ ret' = Ret("dep.createTaskName", g, <<dep>>, DepCreateTaskName(config, dep, groups[g]), FALSE)
  /\ UNCHANGED <<config, groups, host, loaded>>

\* a BuildConfig object where a task group is expected: it has the properties
\* paths, tasks and less, so its groupName and its config are undefined
ConfigAsGroup(c) == [groupName |-> Undefined, config |-> Undefined]

\* ActionDependency.prototype.createTaskName(gulpTaskGroup) with the config
\* object c as argument: gulpTaskGroup.config.createTaskName(...) is a call on
\* undefined, a TypeError; gulpTaskGroup.createTaskName(this.actionName) is
\* BuildConfig's createTaskName with the action name as its groupName
DepCreateTaskNameOfConfig(cs, dep, c) ==
  IF Truthy(IsExternalTo(dep, ConfigAsGroup(c)))
    THEN [threw |-> TRUE, val |-> Undefined]
    ELSE [threw |-> FALSE,
          val |-> ConfigCreateTaskName(cs[c], dep.actionName, Undefined, Undefined)]

DepCreateTaskNameOfConfigCall(dep, c) ==
  /\ Query
  /\ ret' = Ret("dep.createTaskName(config)", 0, <<dep, c>>,
                DepCreateTaskNameOfConfig(config, dep, c).val,
                DepCreateTaskNameOfConfig(config, dep, c).threw)
  /\ UNCHANGED <<config, groups, host, loaded>>

\* inputs of the naming functions
buildDev == <<"b","u","i","l","d",":","d","e","v">>
NameValues == {Str(less), Str(fonts), Str(copy), Str(buildDev), Str(<<>>)}
PrefixArgs == {Undefined, False, Str(<<>>), Str(<<"x">>)}
DepGroupNames == {Undefined, Str(<<>>), Str(less), Str(fonts)}
DepActionNames == {Str(copy), Str(clean)}
ActionDependencies == {ActionDependency(gn, an) : gn \in DepGroupNames, an \in DepActionNames}
DepEntries == ActionDependencies \cup {StringDep(an) : an \in DepActionNames}

RECURSIVE SeqsUpTo(_, _)
SeqsUpTo(S, n) ==
  IF n = 0 THEN {<<>>}
  ELSE LET shorter == SeqsUpTo(S, n - 1)
       IN  shorter \cup {Append(q, x) : q \in shorter, x \in S}

AllDepLists == SeqsUpTo(DepEntries, MaxDeps)

\* The policies are set, with an empty-string prefix among the values, and
\* two task groups have been constructed.
InitNaming ==
  /\ Fresh([defaultPrefixName : PrefixNames \cup {Str(<<>>)}, groupBeforeAction : BOOLEAN], 0)
  /\ \E n \in {less, fonts}, c1 \in ConfigIds :
       groups = <<GulpTaskGroup(Str(less), c1), GulpTaskGroup(Str(n), sharedConfig)>>

\* each function is applied to the inputs drawn
NextNaming ==
  \/ \E c \in ConfigIds, gn \in NameValues, an \in NameValues, p \in PrefixArgs :
       ConfigCreateTaskNameCall(c, gn, an, p)
  \/ \E g \in GroupIds, an \in DepActionNames : CreateTaskNameCall(g, an)
  \/ \E g \in GroupIds, an \in DepActionNames : GetActionDepCall(g, an)
  \/ \E g \in GroupIds, dep \in ActionDependencies : IsExternalToCall(dep, g)
  \/ \E g \in GroupIds, dep \in ActionDependencies : DepCreateTaskNameCall(dep, g)
  \/ \E g \in GroupIds, deps \in AllDepLists : ResolveDepNamesCall(g, deps)
  \/ \E c \in ConfigIds, dep \in ActionDependencies : DepCreateTaskNameOfConfigCall(dep, c)

SpecNaming == InitNaming /\ [][NextNaming]_vars

\* every operation, in short sessions that start with two groups or with none
InitFrame == Fresh({BuildConfig}, MaxFrameCalls) /\ (TwoGroups \/ groups = <<>>)

NextFrame == PolicyWrites \/ AddActions \/ GroupLoads \/ LoaderCalls \/ Queries

SpecFrame == InitFrame /\ [][NextFrame]_vars

\* ------------------------------------------------------------ KitchenSink
\* new KitchenSink(gulp): this.config = globalConfig, and the group loader is
\* made with (gulp, this.config)
SinkConfig == sharedConfig

foobar == <<"f","o","o","b","a","r">>

\* getTaskGroup(groupName) as the facade's methods call it: does it throw, or
\* return something that is no task group
SinkGroupFails(groupName) ==
  CachedGroup(loaded, groupName) = 0
    /\ (Truthy(InheritedMember(groupName)) \/ ~ModuleFileExists(groupName))

\* a facade call that throws before anything has changed: require() finds no
\* module, or the inherited member that getTaskGroup returns has no such method
SinkThrows(op, args) ==
  /\ Query
  /\ ret' = Ret(op, 0, args, Undefined, TRUE)
  /\ UNCHANGED <<config, groups, host, loaded>>

\* KitchenSink.prototype.addTask(groupName, actionName):
\* this._groupLoader.getTaskGroup(groupName).loadTask(actionName, gulp)
AddTask(groupName, actionName) ==
  IF SinkGroupFails(groupName) THEN SinkThrows("addTask", <<groupName, actionName>>)
  ELSE LET st == GetTaskGroupOn(config, [groups |-> groups, loaded |-> loaded, host |-> host],
                                groupName)
           g == CachedGroup(st.loaded, groupName)
           group == st.groups[g]
           found == FoundLoader(group, actionName)
       IN  /\ Call
           /\ Len(st.groups) <= MaxGroups
           /\ Len(st.host) < MaxRegs
           /\ groups' = st.groups
           /\ loaded' = st.loaded
           /\ IF found = <<>>
                THEN /\ host' = st.host
                     /\ ret' = IF MemberCallThrows(OtherMember(group, actionName))
                                 THEN Ret("addTask", g, <<groupName, actionName>>, Undefined, TRUE)
                                 ELSE Ret("addTask", g, <<groupName, actionName>>,
                                          objectObject, FALSE)
                ELSE /\ host' = Append(st.host, TaskLoaderCall(config, group, found[1]))
                     /\ ret' = Ret("addTask", g, <<groupName, actionName>>,
                                   TaskLoaderName(config, group, found[1]), FALSE)
           /\ UNCHANGED config

\* KitchenSink.prototype.addTasks(groupName):
\* this._groupLoader.getTaskGroup(groupName).loadAllTasks(gulp)
AddTasks(groupName) ==
  IF SinkGroupFails(groupName) THEN SinkThrows("addTasks", <<groupName>>)
  ELSE LET st == GetTaskGroupOn(config, [groups |-> groups, loaded |-> loaded, host |-> host],
                                groupName)
           g == CachedGroup(st.loaded, groupName)
           group == st.groups[g]
       IN  /\ Call
           /\ Len(st.groups) <= MaxGroups
           /\ Len(st.host) + Len(group.taskLoaders) <= MaxRegs
           /\ groups' = st.groups
           /\ loaded' = st.loaded
           /\ host' = st.host \o LoadAllCalls(config, group)
           /\ ret' = Ret("addTasks", g, <<groupName>>, LoadAllNames(config, group), FALSE)
           /\ UNCHANGED config

\* KitchenSink.prototype.listTaskGroups()
ListTaskGroups ==
  /\ Query
  /\ ret' = Ret("listTaskGroups", 0, NoArgs, AvailableTaskGroups, FALSE)
  /\ UNCHANGED <<config, groups, host, loaded>>

\* the methods that GulpTaskGroup.prototype defines
GroupMethods ==
  {"listActionNames", "getActionDep", "createTaskName", "resolveDepNames", "addAction",
   "_createTaskLoaderFn", "loadTask", "loadAllTasks"}

\* KitchenSink.prototype.listTaskGroupActions(groupName):
\* this._groupLoader.getTaskGroup(groupName).getActions(). The task group has
\* no member of that name, so the call of undefined throws a TypeError, after
\* getTaskGroup has loaded and cached the group.
ListTaskGroupActions(groupName) ==
  IF SinkGroupFails(groupName) \/ CachedGroup(loaded, groupName) # 0
    THEN /\ "getActions" \notin GroupMethods
         /\ SinkThrows("listTaskGroupActions", <<groupName>>)
  ELSE LET st == GetTaskGroupOn(config, [groups |-> groups, loaded |-> loaded, host |-> host],
                                groupName)
       IN  /\ Call
           /\ Len(st.groups) <= MaxGroups
           /\ Len(st.host) <= MaxRegs
           /\ groups' = st.groups
           /\ loaded' = st.loaded
           /\ host' = st.host
           /\ ret' = Ret("listTaskGroupActions", CachedGroup(st.loaded, groupName),
                         <<groupName>>, Undefined, "getActions" \notin GroupMethods)
           /\ UNCHANGED config

\* kitchenSink.config.tasks.defaultPrefixName = 'foobar', and the other writes
\* of the build file to the facade's config
SinkWrites ==
  \/ \E b \in BOOLEAN : SetGroupBeforeAction(SinkConfig, b)
  \/ \E p \in {False, Str(foobar), Str(pfx)} : SetDefaultPrefixName(SinkConfig, p)

SinkCalls ==
  \/ \E n \in LoaderNames, a \in LoadNames : AddTask(n, Str(a))
  \/ \E n \in LoaderNames : AddTasks(n)
  \/ ListTaskGroups
  \/ \E n \in LoaderNames : ListTaskGroupActions(n)

\* a build file that uses the facade only; nothing is loaded at the start
InitSink == Fresh({BuildConfig}, MaxSinkCalls) /\ groups = <<>>

NextSink == SinkWrites \/ SinkCalls

SpecSink == InitSink /\ [][NextSink]_vars

\* -------------------------------------------- action names as object keys
\* One task group whose actions are defined under an ordinary name and under
\* the names that every object made by {} knows already.
KeyNames == {build, protoName}

KeyLoadNames == KeyNames \cup {toStringName}

InitKeys ==
  /\ Fresh({BuildConfig}, MaxKeyCalls)
  /\ groups = <<GulpTaskGroup(Str(less), sharedConfig)>>

NextKeys ==
  \/ \E argc \in {2, 3}, a \in KeyNames, d \in DepLists, f \in TaskFns :
       AddAction(1, argc, Str(a), d, f)
  \/ ListActionNamesCall(1)
  \/ \E a \in KeyLoadNames : LoadTask(1, Str(a))
  \/ LoadAllTasks(1)

SpecKeys == InitKeys /\ [][NextKeys]_vars

\* ------------------------------------------- dependencies across groups
\* other.getActionDep(depName) handed to addAction as the only dependency:
\* tasks.addAction(actionName, [other.getActionDep(depName)], taskFn)
AddDependentAction(g, other, actionName, depName, taskFn) ==
  AddAction(g, 3, actionName, <<GetActionDep(groups[other], depName)>>, taskFn)

\* The group 'less' on the shared config and a second group, of another name,
\* of the same name or of the empty name, on the same config object or on the
\* other one; the policies are set and stay as they are, that of a config
\* object that no group uses being the default one.
InitDeps ==
  /\ Fresh(Policies, MaxDepCalls)
  /\ \E n \in {less, fonts, <<>>}, c2 \in ConfigIds :
       /\ groups = <<GulpTaskGroup(Str(less), sharedConfig), GulpTaskGroup(Str(n), c2)>>
       /\ c2 = sharedConfig => config[customConfig] = BuildConfig

NextDeps ==
  \/ \E a \in ActionNames : AddAction(2, 2, Str(a), <<>>, "f2")
  \/ \E a \in ActionNames, d \in ActionNames : AddDependentAction(1, 2, Str(a), Str(d), "f1")
  \/ \E g \in GroupIds, a \in ActionNames : LoadTask(g, Str(a))

SpecDeps == InitDeps /\ [][NextDeps]_vars

\* ----------------------------------------------- a host that may reject
\* The two task groups under the default policy, and a host whose task() may
\* throw during a load.
NextHost == AddActions \/ GroupLoads \/ HostFailures

SpecHost == Init /\ [][NextHost]_vars

\* ================================================================ claims
\* the parts of a task name, joined by ':'
RECURSIVE JoinParts(_)
JoinParts(parts) ==
  IF Len(parts) = 0 THEN <<>>
  ELSE IF Len(parts) = 1 THEN parts[1]
  ELSE parts[1] \o <<":">> \o JoinParts(Tail(parts))

\* the identifier the naming rules give: [prefix :] group : action, or
\* [prefix :] action : group, the prefix being the explicit one if truthy and
\* the policy's default otherwise, left out when falsy
NameParts(policy, groupName, actionName, explicitPrefix) ==
  LET effective == IF Truthy(explicitPrefix) THEN explicitPrefix ELSE policy.defaultPrefixName
      pair == IF policy.groupBeforeAction THEN <<groupName.v, actionName.v>>
              ELSE <<actionName.v, groupName.v>>
  IN  (IF Truthy(effective) THEN <<effective.v>> ELSE <<>>) \o pair

ExpectedName(policy, groupName, actionName, explicitPrefix) ==
  JoinParts(NameParts(policy, groupName, actionName, explicitPrefix))

lessCopy == <<"l","e","s","s",":","c","o","p","y">>
copyLess == <<"c","o","p","y",":","l","e","s","s">>

\* C1: createTaskName returns effectivePrefix:corePair when the effective prefix
\* (the explicit prefix if truthy, else defaultPrefixName) is truthy and corePair
\* otherwise, corePair being group:action when groupBeforeAction and
\* action:group when not; 'less','copy' gives 'less:copy', 'copy:less',
\* 'x:less:copy' or 'x:copy:less'.
C1_CreateTaskName ==
  ret.op = "config.createTaskName" =>
    LET policy == config[ret.args[1]]
        gn == ret.args[2]
        an == ret.args[3]
        p == ret.args[4]
    IN  /\ ret.val = ExpectedName(policy, gn, an, p)
        /\ (gn = Str(less) /\ an = Str(copy)) =>
             ret.val = (IF Truthy(p) THEN <<"x",":">>
                        ELSE IF Truthy(policy.defaultPrefixName) THEN <<"p",":">>
                        ELSE <<>>)
                       \o (IF policy.groupBeforeAction THEN lessCopy ELSE copyLess)

\* a call with a falsy explicit prefix under a policy with a default prefix and
\* the action before the group
C1_Witness ==
  /\ ret.op = "config.createTaskName"
  /\ ret.args[4] = Str(<<>>)
  /\ config[ret.args[1]] = [defaultPrefixName |-> Str(pfx), groupBeforeAction |-> FALSE]
  /\ ret.val = <<"p",":">> \o copyLess

\* the dependency identifiers the naming rules give for a dependency list:
\* an entry names an action of its own group if it has a truthy group name
\* other than the context group's, and an action of the context group if not
ExpectedDepName(policy, contextName, dep) ==
  IF dep.isDep /\ Truthy(dep.groupName) /\ dep.groupName # contextName
    THEN ExpectedName(policy, dep.groupName, dep.actionName, Undefined)
    ELSE ExpectedName(policy, contextName, dep.actionName, Undefined)

ExpectedDepNames(policy, contextName, deps) ==
  [i \in 1..Len(deps) |-> ExpectedDepName(policy, contextName, deps[i])]

\* the record of action actionName in a group
LoaderOf(group, actionName) ==
  group.taskLoaders[CHOOSE i \in 1..Len(group.taskLoaders) :
                      group.taskLoaders[i].actionName = actionName]

HasAction(group, actionName) ==
  \E i \in 1..Len(group.taskLoaders) : group.taskLoaders[i].actionName = actionName

\* the last call was a loadTask of an action of the group, and it returned
Loaded == ret.op = "loadTask" /\ ~ret.threw /\ HasAction(groups[ret.group], ret.args[1])

HasTask(h, name) == \E i \in 1..Len(h) : h[i].name = name

\* C2: the identifier and the dependency identifiers that loadTask registers are
\* those of the policy in effect when loadTask is called; where the policy has
\* changed since addAction, they are not those of the policy at addAction.
C2_ResolvedAtLoadTime ==
  Loaded =>
    LET group == groups[ret.group]
        loader == LoaderOf(group, ret.args[1])
        now == config[group.config]
        then == loader.definedUnder
        reg == host[Len(host)]
    IN  /\ reg.name = ExpectedName(now, group.groupName, loader.actionName, Undefined)
        /\ reg.deps = ExpectedDepNames(now, group.groupName, loader.actionDeps)
        /\ now # then =>
             /\ reg.name # ExpectedName(then, group.groupName, loader.actionName, Undefined)
             /\ \A i \in 1..Len(reg.deps) :
                  reg.deps[i] # ExpectedDepNames(then, group.groupName, loader.actionDeps)[i]

\* an action with dependencies, loaded after the policy it was defined under changed
C2_Witness ==
  /\ Loaded
  /\ LoaderOf(groups[ret.group], ret.args[1]).definedUnder # config[groups[ret.group].config]
  /\ Len(host[Len(host)].deps) = 2

\* C3: loadTask of an action of the group returns buildTaskName(groupName,
\* actionName) and makes exactly one registration, under that identifier, with
\* the action's body and the resolved identifiers of its declared dependencies
\* (none when it has none).
C3_LoadTask ==
  [][(ret'.op = "loadTask" /\ HasAction(groups[ret'.group], ret'.args[1])) =>
       LET group == groups[ret'.group]
           loader == LoaderOf(group, ret'.args[1])
           policy == config[group.config]
       IN  /\ ~ret'.threw
           /\ ret'.val = ExpectedName(policy, group.groupName, ret'.args[1], Undefined)
           /\ host' = Append(host,
                [name |-> ret'.val,
                 deps |-> ExpectedDepNames(policy, group.groupName, loader.actionDeps),
                 fn |-> loader.taskFn])
           /\ groups' = groups /\ config' = config]_vars

\* loadTask has registered an action that has dependencies
C3_Witness ==
  /\ Loaded
  /\ LoaderOf(groups[ret.group], ret.args[1]).actionDeps # <<>>
  /\ host[Len(host)].deps # <<>>
  /\ host[Len(host)].name = ret.val

\* C4: loadAllTasks on a group with N distinct actions returns N identifiers,
\* the i-th being buildTaskName(groupName, i-th action), and afterwards each
\* of them is registered with the host.
C4_LoadAllTasks ==
  ret.op = "loadAllTasks" =>
    LET group == groups[ret.group]
        names == ListActionNames(group)
    IN  /\ Len(ret.val) = Cardinality({names[i] : i \in 1..Len(names)})
        /\ Len(ret.val) = Len(names)
        /\ \A i \in 1..Len(names) :
             /\ ret.val[i] = ExpectedName(config[group.config], group.groupName, names[i], Undefined)
             /\ HasTask(host, ret.val[i])

\* loadAllTasks on a group with two actions
C4_Witness ==
  /\ ret.op = "loadAllTasks"
  /\ Len(ret.val) = 2
  /\ ret.val[1] # ret.val[2]
  /\ Len(host) >= 2

\* a tasks module call made as (gulp, groupName?, config?, lazyLoad?)
NamedCall ==
  /\ ret.op = "tasksModuleFn"
  /\ ret.args[1] = Undefined \/ ret.args[1].t = "string"

\* every action of the group has a task of its name in the host
AllRegistered(group) ==
  \A i \in 1..Len(group.taskLoaders) :
    HasTask(host, ExpectedName(config[group.config], group.groupName,
                               group.taskLoaders[i].actionName, Undefined))

NoneRegistered(group) ==
  \A i \in 1..Len(group.taskLoaders) :
    ~HasTask(host, ExpectedName(config[group.config], group.groupName,
                                group.taskLoaders[i].actionName, Undefined))

\* C5: a tasks module function called with lazyLoad omitted or false, as
\* (gulp) or as (gulp, groupName, config, false), returns a group whose
\* actions are all registered with the host.
C5_AutoLoads ==
  (NamedCall /\ ~Truthy(ret.args[3])) => AllRegistered(groups[ret.group])

\* C6: a tasks module function called with lazyLoad = true, whatever the group
\* name and config arguments, leaves the host's registrations as they were:
\* none of the returned group's actions is registered by the call.
C6_LazyLoadRegistersNothing ==
  [][(ret'.op = "tasksModuleFn"
      /\ (ret'.args[1] = Undefined \/ ret'.args[1].t = "string")
      /\ ret'.args[3] = True)
     => host' = host]_vars

RECURSIVE SplitFrom(_, _, _)
SplitFrom(name, i, part) ==
  IF i > Len(name) THEN <<part>>
  ELSE IF name[i] = ":" THEN <<part>> \o SplitFrom(name, i + 1, <<>>)
  ELSE SplitFrom(name, i + 1, Append(part, name[i]))

Parts(name) == LET ps == SplitFrom(name, 1, <<>>) IN {ps[i] : i \in 1..Len(ps)}

\* the last call resolved one ActionDependency against a context group
DepResolved == ret.op = "dep.createTaskName"

IsExternalDep(dep, group) == Truthy(dep.groupName) /\ dep.groupName # group.groupName

fontsCopy == <<"f","o","n","t","s",":","c","o","p","y">>
copyFonts == <<"c","o","p","y",":","f","o","n","t","s">>
lessClean == <<"l","e","s","s",":","c","l","e","a","n">>

\* C8: an ActionDependency(g2, a2) with g2 truthy and other than the context
\* group's name g1 resolves to the name of (g2, a2) under the context group's
\* policy; g2 is a part of the result and g1 is not.
C8_ExternalDependency ==
  (DepResolved /\ IsExternalDep(ret.args[1], groups[ret.group])) =>
    LET dep == ret.args[1]
        group == groups[ret.group]
        policy == config[group.config]
    IN  /\ ret.val = ExpectedName(policy, dep.groupName, dep.actionName, Undefined)
        /\ dep.groupName.v \in Parts(ret.val)
        /\ group.groupName.v \notin Parts(ret.val)
        /\ (policy = BuildConfig /\ dep = ActionDependency(Str(fonts), Str(copy)))
             => ret.val = fontsCopy

\* ActionDependency('fonts','copy') resolved in group 'less' under a policy
\* with a prefix and the action first
C8_Witness ==
  /\ DepResolved
  /\ ret.args[1] = ActionDependency(Str(fonts), Str(copy))
  /\ groups[ret.group].groupName = Str(less)
  /\ ret.val = <<"p",":">> \o copyFonts

\* C9: a dependency with no group (undefined or ''), a dependency on the
\* context group's own name, and a bare string all resolve to the context
\* group's buildTaskName of the action.
C9_LocalDependency ==
  LET group == groups[ret.group]
      own(an) == ExpectedName(config[group.config], group.groupName, an, Undefined)
  IN  /\ (DepResolved /\ ~IsExternalDep(ret.args[1], group)) =>
            ret.val = own(ret.args[1].actionName)
      /\ ret.op = "resolveDepNames" =>
           \A i \in 1..Len(ret.args[1]) :
             (~ret.args[1][i].isDep \/ ~IsExternalDep(ret.args[1][i], group)) =>
               ret.val[i] = own(ret.args[1][i].actionName)

\* ActionDependency(undefined, 'clean') resolved in group 'less' under a
\* policy with a prefix
C9_Witness ==
  /\ DepResolved
  /\ ret.args[1] = ActionDependency(Undefined, Str(clean))
  /\ groups[ret.group].groupName = Str(less)
  /\ ret.val = <<"p",":">> \o lessClean

\* C10: resolveDepNames returns as many names as it was given entries, the
\* i-th being the resolution of the i-th entry, and leaves its argument as it
\* was; in group 'less' under the default policy
\* [ActionDependency('fonts','copy'), 'clean'] gives ['fonts:copy','less:clean'].
C10_ResolveDepNames ==
  ret.op = "resolveDepNames" =>
    LET group == groups[ret.group]
        policy == config[group.config]
        deps == ret.args[1]
    IN  /\ Len(ret.val) = Len(deps)
        /\ \A i \in 1..Len(deps) :
             ret.val[i] = ExpectedDepName(policy, group.groupName, deps[i])
        /\ ret.args[2] = deps
        /\ (group.groupName = Str(less) /\ policy = BuildConfig
            /\ deps = <<ActionDependency(Str(fonts), Str(copy)), StringDep(Str(clean))>>)
             => ret.val = <<fontsCopy, lessClean>>

\* the example list resolved in group 'less' under the default policy
C10_Witness ==
  /\ ret.op = "resolveDepNames"
  /\ ret.args[1] = <<ActionDependency(Str(fonts), Str(copy)), StringDep(Str(clean))>>
  /\ ret.val = <<fontsCopy, lessClean>>

\* the last call was a loadTask of an action that addAction has defined twice
LoadedReplaced(r, gs) ==
  /\ r.op = "loadTask" /\ ~r.threw
  /\ HasAction(gs[r.group], r.args[1])
  /\ LoaderOf(gs[r.group], r.args[1]).replaced # <<>>

\* C11: after addAction was called twice with one action name, loadTask of that
\* name makes one registration, with the body and the dependencies of the
\* second call; the first call's body and dependencies, where they differ, are
\* not registered, and the group lists the name once.
C11_SecondReplacesFirst ==
  [][LoadedReplaced(ret', groups) =>
       LET group == groups[ret'.group]
           loader == LoaderOf(group, ret'.args[1])
           second == loader.added
           first == loader.replaced[1]
           policy == config[group.config]
           Resolved(deps) == ExpectedDepNames(policy, group.groupName, deps)
       IN  /\ host' = Append(host, [name |-> ret'.val,
                                    deps |-> Resolved(second.actionDeps),
                                    fn |-> second.taskFn])
           /\ first.taskFn # second.taskFn => host'[Len(host')].fn # first.taskFn
           /\ first.actionDeps # second.actionDeps =>
                host'[Len(host')].deps # Resolved(first.actionDeps)
           /\ Cardinality({i \in 1..Len(group.taskLoaders) :
                             group.taskLoaders[i].actionName = ret'.args[1]}) = 1]_vars

\* an action defined with dependencies and one body, defined again without
\* dependencies and with another body, and then loaded
C11_Witness ==
  /\ LoadedReplaced(ret, groups)
  /\ LET loader == LoaderOf(groups[ret.group], ret.args[1])
     IN  /\ loader.replaced[1].actionDeps # <<>>
         /\ loader.added.actionDeps = <<>>
         /\ loader.replaced[1].taskFn # loader.added.taskFn
         /\ host[Len(host)].fn = loader.added.taskFn
         /\ host[Len(host)].deps = <<>>

\* C12: loadTask with an action name that the group does not hold fails for the
\* caller, it does not return a value, and it leaves the host's registrations
\* and the group's actions as they were.
C12_UnknownActionFails ==
  [][(ret'.op = "loadTask" /\ ~HasAction(groups[ret'.group], ret'.args[1])) =>
       /\ ret'.threw
       /\ host' = host
       /\ groups' = groups]_vars

\* C13: the loader memoizes per group name: a getTaskGroup of a cached name
\* returns the cached instance and calls no tasks module, every call of a
\* tasks module by the loader adds one cache key, the keys stay distinct, and a
\* name that loadedTaskGroups lists stays listed, bound to the same group.
C13_Memoizes ==
  [][/\ (ret'.op = "getTaskGroup" /\ CachedGroup(loaded, ret'.args[1]) # 0) =>
          /\ ~ret'.threw
          /\ ret'.group = CachedGroup(loaded, ret'.args[1])
          /\ groups' = groups
     /\ ret'.op \in {"getTaskGroup", "getAllAvailableTaskGroups"} =>
          Len(groups') + Len(loaded) = Len(groups) + Len(loaded')
     /\ \A i, j \in 1..Len(loaded') : loaded'[i].groupName = loaded'[j].groupName => i = j
     /\ \A i \in 1..Len(LoadedTaskGroups) :
          /\ \E j \in 1..Len(LoadedTaskGroups') : LoadedTaskGroups'[j] = LoadedTaskGroups[i]
          /\ CachedGroup(loaded', LoadedTaskGroups[i]) = CachedGroup(loaded, LoadedTaskGroups[i])
    ]_vars

\* 'less' was loaded, then 'fonts', and then 'less' was asked for again
C13_Witness ==
  /\ ret.op = "getTaskGroup"
  /\ ret.args[1] = less
  /\ LoadedTaskGroups = <<less, fonts>>
  /\ ret.group = CachedGroup(loaded, less)
  /\ Len(groups) = 2

IsAvailable(n) == \E i \in 1..Len(AvailableTaskGroups) : AvailableTaskGroups[i] = n

IsLoaded(n) == \E i \in 1..Len(LoadedTaskGroups) : LoadedTaskGroups[i] = n

\* C14: the group that the loader returns for an available name n has the
\* groupName n and n is then among loadedTaskGroups(); every cache key is the
\* groupName of the group cached under it.
C14_KeyIsGroupName ==
  /\ \A i \in 1..Len(loaded) :
       /\ loaded[i].group \in GroupIds
       /\ groups[loaded[i].group].groupName = Str(loaded[i].groupName)
  /\ (ret.op = "getTaskGroup" /\ IsAvailable(ret.args[1])) =>
       /\ ~ret.threw
       /\ ret.group \in GroupIds
       /\ groups[ret.group].groupName = Str(ret.args[1])
       /\ IsLoaded(ret.args[1])
  /\ ret.op = "getAllAvailableTaskGroups" =>
       \A i \in 1..Len(AvailableTaskGroups) :
         /\ IsLoaded(AvailableTaskGroups[i])
         /\ groups[ret.val[i]].groupName = Str(AvailableTaskGroups[i])

\* the second available group was asked of the loader by its name
C14_Witness ==
  /\ ret.op = "getTaskGroup"
  /\ ret.args[1] = fonts
  /\ IsAvailable(fonts)
  /\ groups[ret.group].groupName = Str(fonts)
  /\ IsLoaded(fonts)

\* C15: getTaskGroup of a name that is not cached and has no module file fails
\* with the load error, and the cache is as before: the name is not among
\* loadedTaskGroups(), so a later call tries to load again.
C15_UnknownGroupFails ==
  [][(/\ ret'.op = "getTaskGroup"
      /\ CachedGroup(loaded, ret'.args[1]) = 0
      /\ ~ModuleFileExists(ret'.args[1])) =>
       /\ ret'.threw
       /\ loaded' = loaded
       /\ \A i \in 1..Len(LoadedTaskGroups') : LoadedTaskGroups'[i] # ret'.args[1]]_vars

foobarLessBuild == <<"f","o","o","b","a","r",":","l","e","s","s",":","b","u","i","l","d">>

\* addTask has returned from loading an action of the group
TaskAdded ==
  /\ ret.op = "addTask" /\ ~ret.threw
  /\ HasAction(groups[ret.group], ret.args[2])

\* C16: addTask(groupName, actionName) registers the task with the host and
\* returns its name, the name that createTaskName gives for the two under the
\* facade's config as it is then; with defaultPrefixName = 'foobar',
\* addTask('less', 'build') returns 'foobar:less:build'.
C16_AddTaskReturnsName ==
  /\ TaskAdded =>
       /\ ret.val = ExpectedName(config[SinkConfig], Str(ret.args[1]), ret.args[2], Undefined)
       /\ host[Len(host)].name = ret.val
       /\ (/\ config[SinkConfig] = [defaultPrefixName |-> Str(foobar), groupBeforeAction |-> TRUE]
           /\ ret.args = <<less, Str(build)>>) => ret.val = foobarLessBuild
  /\ (ret.op = "addTask" /\ IsAvailable(ret.args[1])
        /\ \E i \in 1..Len(ModulesDir) :
             /\ TaskModuleMatch(ModulesDir[i]) = ret.args[1]
             /\ \E k \in 1..Len(ModuleOfFile(ModulesDir[i]).actions) :
                  Str(ModuleOfFile(ModulesDir[i]).actions[k].actionName) = ret.args[2])
       => TaskAdded

\* the README's example: the prefix was set to 'foobar' and then
\* addTask('less', 'build') was called
C16_Witness ==
  /\ TaskAdded
  /\ ret.args = <<less, Str(build)>>
  /\ ret.val = foobarLessBuild
  /\ HasTask(host, foobarLessBuild)

\* the last step wrote a field of the naming policy of a config object
PolicyWritten(r) == r.op \in {"setGroupBeforeAction", "setDefaultPrefixName"}

\* C17: the naming policy is shared by reference: after a write to a field of
\* a config object, the names of every group constructed with that object
\* follow the new values and the names of a group constructed with another
\* object are as before; a group's config is the object it was constructed with.
C17_PolicySharedByReference ==
  [][/\ \A g \in 1..Len(groups) : groups'[g].config = groups[g].config
     /\ PolicyWritten(ret') =>
          LET written == CHOOSE c \in ConfigIds : config'[c] # config[c]
          IN  \A g \in GroupIds, a \in ActionNames :
                LET before == GroupCreateTaskName(config, groups[g], Str(a))
                    after == GroupCreateTaskName(config', groups'[g], Str(a))
                IN  IF groups[g].config = written
                      THEN /\ after = ExpectedName(config'[written], groups[g].groupName,
                                                   Str(a), Undefined)
                           /\ after # before
                      ELSE after = before
    ]_vars

fontsBuild == <<"f","o","n","t","s",":","b","u","i","l","d">>
lessBuild == <<"l","e","s","s",":","b","u","i","l","d">>

\* two groups on the shared config object, one write of the prefix to it, and
\* the names of both groups carry the prefix
C17_Witness ==
  /\ ret.op = "setDefaultPrefixName"
  /\ Len(groups) = 2
  /\ groups[1].config = sharedConfig /\ groups[2].config = sharedConfig
  /\ config[customConfig] = BuildConfig
  /\ GroupCreateTaskName(config, groups[1], Str(build)) = <<"p",":">> \o lessBuild
  /\ GroupCreateTaskName(config, groups[2], Str(build)) = <<"p",":">> \o fontsBuild

\* the tasks modules that the sessions call directly
TasksModules == {lessTasks, testTasks}

\* the group holds the actions that the module's addActionsFn adds, no others
HoldsActionsOf(group, module) ==
  ListActionNames(group) = [i \in 1..Len(module.actions) |-> Str(module.actions[i].actionName)]

\* C18: the group that a tasks module function returns has the group name
\* given as override when one is given, and the fallback name given to
\* createTasksModule when the override is undefined; either way it holds
\* exactly the actions that addActionsFn adds.
C18_OverrideOrFallbackName ==
  NamedCall =>
    \E m \in TasksModules :
      /\ HoldsActionsOf(groups[ret.group], m)
      /\ groups[ret.group].groupName =
           (IF ret.args[1] = Undefined THEN Str(m.groupName) ELSE ret.args[1])

\* C19: the group that a tasks module function returns has as config the very
\* object given as config argument, and the shared config singleton when none
\* is given; the call makes no config object of its own.
C19_GivenOrSharedConfig ==
  ret.op = "tasksModuleFn" =>
    /\ groups[ret.group].config =
         (IF ret.args[2] = Undefined THEN sharedConfig ELSE ret.args[2].v)
    /\ groups[ret.group].config \in ConfigIds
    /\ DOMAIN config = ConfigIds

\* a call with a config object of the caller's: the group carries that object
C19_Witness ==
  /\ ret.op = "tasksModuleFn"
  /\ ret.args[2] = Obj(customConfig)
  /\ groups[ret.group].config = customConfig
  /\ \E g \in GroupIds : groups[g].config = sharedConfig

\* C20: isExternalTo returns a boolean for every dependency and group: true
\* when the dependency's groupName is truthy and is not the group's name,
\* false in every other case, also when the groupName is undefined or ''.
C20_IsExternalToBoolean ==
  ret.op = "isExternalTo" =>
    LET dep == ret.args[1]
        group == groups[ret.group]
    IN  IF Truthy(dep.groupName) /\ dep.groupName # group.groupName
          THEN ret.val = True
          ELSE ret.val = False

\* C21: createTaskName of a dependency with a group name, handed the config
\* object itself, returns the name built from the dependency's group and
\* action names under that config: 'group:action', 'prefix:group:action',
\* 'action:group' or 'prefix:action:group'.
C21_DepNameFromConfig ==
  (ret.op = "dep.createTaskName(config)" /\ Truthy(ret.args[1].groupName)) =>
    /\ ~ret.threw
    /\ ret.val = ExpectedName(config[ret.args[2]], ret.args[1].groupName,
                              ret.args[1].actionName, Undefined)


\* C22: listActionNames() holds each action name that was passed to addAction
\* exactly once and nothing else: a name that was not listed is appended, so
\* that the list grows by exactly one, and a name that was listed leaves the
\* list as it was.
C22_ListsEachAddedName ==
  [][ret'.op = "addAction" =>
       LET before == ListActionNames(groups[ret'.group])
           after == ListActionNames(groups'[ret'.group])
       IN  after = IF \E i \in 1..Len(before) : before[i] = ret'.args[1]
                     THEN before
                     ELSE Append(before, ret'.args[1])]_vars

lessHint == <<"l","e","s","s",":","h","i","n","t">>

\* the group 'less' holding 'build', then 'hint', both defined without
\* dependencies, on a config with the default policy
LessBuildThenHint(group, policy) ==
  /\ group.groupName = Str(less)
  /\ ListActionNames(group) = <<Str(build), Str(hint)>>
  /\ \A i \in 1..2 : group.taskLoaders[i].actionDeps = <<>>
  /\ policy = BuildConfig

\* C23: one loadAllTasks call registers the group's actions with the host in
\* the order of listActionNames(), one registration per action, and returns
\* their identifiers in that order; for the group 'less' with 'build' then
\* 'hint' defined without dependencies under the default policy it returns
\* <<'less:build', 'less:hint'>>, both registered without dependencies.
C23_RegistersInListOrder ==
  [][ret'.op = "loadAllTasks" =>
       LET group == groups[ret'.group]
           names == ListActionNames(group)
           policy == config[group.config]
       IN  /\ Len(host') = Len(host) + Len(names)
           /\ SubSeq(host', 1, Len(host)) = host
           /\ Len(ret'.val) = Len(names)
           /\ \A i \in 1..Len(names) :
                /\ host'[Len(host) + i].name = ExpectedName(policy, group.groupName, names[i], Undefined)
                /\ host'[Len(host) + i].fn = group.taskLoaders[i].taskFn
                /\ ret'.val[i] = host'[Len(host) + i].name
           /\ LessBuildThenHint(group, policy) =>
                /\ ret'.val = <<lessBuild, lessHint>>
                /\ \A i \in 1..2 : host'[Len(host) + i].deps = <<>>]_vars

\* 'less' with 'build' then 'hint' was loaded whole into an empty host
C23_Witness ==
  /\ ret.op = "loadAllTasks"
  /\ LessBuildThenHint(groups[ret.group], config[groups[ret.group].config])
  /\ ret.val = <<lessBuild, lessHint>>
  /\ Len(host) = 2
  /\ host[1].name = lessBuild /\ host[2].name = lessHint
  /\ host[1].fn # host[2].fn

\* C24: availableTaskGroups() and loadedTaskGroups() load and cache nothing:
\* over such a call the cache, and so the answer of loadedTaskGroups(), is what
\* it was, no task group has been created by a tasks module, and nothing has
\* been registered.
C24_ListingLoadsNothing ==
  [][ret'.op \in {"availableTaskGroups", "loadedTaskGroups"} =>
       /\ loaded' = loaded
       /\ LoadedTaskGroups' = LoadedTaskGroups
       /\ groups' = groups
       /\ host' = host]_vars

\* the directory was scanned while one of its several modules was loaded
C24_Witness ==
  /\ ret.op = "availableTaskGroups"
  /\ Len(ret.val) > 1
  /\ LoadedTaskGroups = <<ret.val[2]>>

\* C25: getAllAvailableTaskGroups() returns one task group per scanned name,
\* in scan order, the i-th being the group that getTaskGroup returns for the
\* i-th name; afterwards every scanned name is among loadedTaskGroups(); a
\* group that was cached before the call is returned as that same instance
\* and only the names that were not cached have been loaded.
C25_AllAvailableInScanOrder ==
  [][ret'.op = "getAllAvailableTaskGroups" =>
       LET names == AvailableTaskGroups
           after == [groups |-> groups', loaded |-> loaded', host |-> host']
       IN  /\ ~ret'.threw
           /\ Len(ret'.val) = Len(names)
           /\ \A i \in 1..Len(names) :
                /\ ret'.val[i] \in 1..Len(groups')
                /\ groups'[ret'.val[i]].groupName = Str(names[i])
                /\ GetTaskGroupOn(config', after, names[i]) = after
                /\ ret'.val[i] = CachedGroup(loaded', names[i])
                /\ \E j \in 1..Len(LoadedTaskGroups') : LoadedTaskGroups'[j] = names[i]
                /\ CachedGroup(loaded, names[i]) # 0 =>
                     /\ ret'.val[i] = CachedGroup(loaded, names[i])
                     /\ groups'[ret'.val[i]] = groups[ret'.val[i]]
           /\ Len(groups') - Len(groups) =
                Cardinality({i \in 1..Len(names) : CachedGroup(loaded, names[i]) = 0})
           /\ SubSeq(groups', 1, Len(groups)) = groups]_vars

\* all groups were asked for while the second scanned name was cached and the
\* first was not
C25_Witness ==
  /\ ret.op = "getAllAvailableTaskGroups"
  /\ AvailableTaskGroups = <<less, fonts>>
  /\ LoadedTaskGroups = <<fonts, less>>
  /\ ret.val = <<CachedGroup(loaded, less), CachedGroup(loaded, fonts)>>
  /\ ret.val[1] > ret.val[2]

\* C26: the facade's operations return what the delegated operations return:
\* addTasks(g) the identifiers of loadAllTasks on the loader's group g,
\* listTaskGroups() the names of availableTaskGroups(), and
\* listTaskGroupActions(g) the names of listActionNames() of the loader's group
\* g, for every group g that the loader can load.
C26_FacadeDelegates ==
  /\ (ret.op = "addTasks" /\ IsAvailable(ret.args[1])) =>
       /\ ~ret.threw
       /\ ret.group = CachedGroup(loaded, ret.args[1])
       /\ ret.val = LoadAllNames(config, groups[ret.group])
  /\ ret.op = "listTaskGroups" => (~ret.threw /\ ret.val = AvailableTaskGroups)
  /\ (ret.op = "listTaskGroupActions" /\ IsAvailable(ret.args[1])) =>
       /\ ~ret.threw
       /\ ret.val = ListActionNames(groups[CachedGroup(loaded, ret.args[1])])

\* the string s holds the separator
HasSeparator(s) == \E i \in 1..Len(s) : <<s[i]>> = TASK_NAME_SEPARATOR

\* C27: splitting an identifier that createTaskName has produced on ':' gives
\* the components that produced it, in their order: the effective prefix if
\* there is one, then group and action in the order that the policy sets.
\* This holds for components that do not hold a ':' themselves; an empty
\* group or action name is recovered as an empty component.
C27_SplitRecoversPlainParts ==
  ret.op = "config.createTaskName" =>
    LET parts == NameParts(config[ret.args[1]], ret.args[2], ret.args[3], ret.args[4])
    IN  (\A i \in 1..Len(parts) : ~HasSeparator(parts[i])) =>
          SplitFrom(ret.val, 1, <<>>) = parts

\* a name with an explicit prefix and the action before the group was split
\* into its three components
C27_Witness ==
  /\ ret.op = "config.createTaskName"
  /\ ret.args[2] = Str(less) /\ ret.args[3] = Str(copy)
  /\ ~config[ret.args[1]].groupBeforeAction
  /\ SplitFrom(ret.val, 1, <<>>) = << <<"x">>, copy, less >>

\* C27 as it is stated, for every identifier that createTaskName produces
C27_SplitRecoversParts ==
  ret.op = "config.createTaskName" =>
    SplitFrom(ret.val, 1, <<>>) =
      NameParts(config[ret.args[1]], ret.args[2], ret.args[3], ret.args[4])

\* the number of registrations that the host holds under a name
Registrations(h, name) == Cardinality({j \in 1..Len(h) : h[j].name = name})

\* C28: registration is unconditional and is never undone: no operation takes
\* a registration from the host; every loadTask of a defined action that the
\* host accepts adds one registration under its name, whether or not the name
\* is registered already; when the host throws at the i-th registration of a
\* loadAllTasks, the call throws that error, the i-1 registrations before it
\* are in the host and the i-th and later ones are not.
C28_NeverRolledBack ==
  [][/\ Len(host') >= Len(host)
     /\ SubSeq(host', 1, Len(host)) = host
     /\ (ret'.op = "loadTask" /\ ~ret'.threw /\ HasAction(groups[ret'.group], ret'.args[1])) =>
          Registrations(host', ret'.val) = Registrations(host, ret'.val) + 1
     /\ (ret'.op = "loadAllTasks" /\ ret'.threw) =>
          LET group == groups[ret'.group]
              i == ret'.args[1].failsAt
          IN  /\ ret'.val = Str(hostError)
              /\ Len(host') = Len(host) + i - 1
              /\ \A j \in 1..(i - 1) :
                   host'[Len(host) + j].name = TaskLoaderName(config, group, group.taskLoaders[j])]_vars

\* the host threw at the second registration of a loadAllTasks, and the first
\* registration of that call is in the host
C28_Witness ==
  /\ ret.op = "loadAllTasks" /\ ret.threw
  /\ ret.args[1].failsAt = 2
  /\ Len(groups[ret.group].taskLoaders) = 2
  /\ Len(host) = 1
  /\ host[1].name = TaskLoaderName(config, groups[ret.group], groups[ret.group].taskLoaders[1])

\* the dependency entries of a loader that the group other has made with
\* getActionDep, while group and other use one config object
DepsOn(group, loader, other) ==
  {k \in 1..Len(loader.actionDeps) :
     /\ other.config = group.config
     /\ loader.actionDeps[k] = GetActionDep(other, loader.actionDeps[k].actionName)}

\* what the loadTask step that was just made has registered
LastRegistered(h) == h[Len(h)]

\* C29 as it is stated, for every two groups on one config object
C29_DependencyNamesAgree ==
  [][(ret'.op = "loadTask" /\ ~ret'.threw /\ HasAction(groups[ret'.group], ret'.args[1])) =>
       LET group == groups[ret'.group]
           loader == LoaderOf(group, ret'.args[1])
       IN  /\ LastRegistered(host').name = ret'.val
           /\ ret'.val = GroupCreateTaskName(config, group, ret'.args[1])
           /\ \A g2 \in GroupIds : \A k \in DepsOn(group, loader, groups[g2]) :
                LastRegistered(host').deps[k] =
                  GroupCreateTaskName(config, groups[g2], loader.actionDeps[k].actionName)]_vars

\* C29: for two groups that use one config object whose policy is not
\* written, the name that the first registers as a dependency for the
\* second's getActionDep(a) is the name under which the second's loadTask(a)
\* registers a, provided that the second group's name is not empty.
C29_NamedGroupDependencyNamesAgree ==
  [][(ret'.op = "loadTask" /\ ~ret'.threw /\ HasAction(groups[ret'.group], ret'.args[1])) =>
       LET group == groups[ret'.group]
           loader == LoaderOf(group, ret'.args[1])
       IN  /\ LastRegistered(host').name = ret'.val
           /\ ret'.val = GroupCreateTaskName(config, group, ret'.args[1])
           /\ \A g2 \in GroupIds : \A k \in DepsOn(group, loader, groups[g2]) :
                Truthy(groups[g2].groupName) =>
                  LastRegistered(host').deps[k] =
                    GroupCreateTaskName(config, groups[g2], loader.actionDeps[k].actionName)]_vars

\* 'less' has registered an action that depends on an action of 'fonts', then
\* 'fonts' has registered that action, under the name of the dependency
C29_Witness ==
  /\ ret.op = "loadTask" /\ ret.group = 2
  /\ groups[2].groupName = Str(fonts)
  /\ groups[2].config = groups[1].config
  /\ Len(host) = 2
  /\ host[1].deps = <<host[2].name>>
  /\ host[2].name = ret.val
  /\ host[1].name # host[2].name

\* a name that is not empty and holds no separator
PlainName(s) == s # <<>> /\ ~HasSeparator(s)

\* group and action names that the naming must keep apart, with pairs whose
\* concatenations are equal among them
PlainNames ==
  {less, fonts, build, hint, <<"l">>, <<"e","s","s","b","u","i","l","d">>}

\* C30: under a policy that is not written, createTaskName gives two pairs
\* (group, action) of non-empty names without ':' the same identifier only
\* if the pairs are equal; so the name under which an action is registered is
\* not the name of any action of another such pair in a group that uses the
\* same config object.
C30_NamesKeepPairsApart ==
  [][(ret'.op = "loadTask" /\ ~ret'.threw /\ HasAction(groups[ret'.group], ret'.args[1])) =>
       LET group == groups[ret'.group]
           gn == group.groupName
           an == ret'.args[1]
       IN  (PlainName(gn.v) /\ PlainName(an.v)) =>
             /\ LastRegistered(host').name = ConfigCreateTaskName(config[group.config], gn, an, Undefined)
             /\ \A gn2 \in PlainNames, an2 \in PlainNames :
                  ConfigCreateTaskName(config[group.config], Str(gn2), Str(an2), Undefined)
                      = LastRegistered(host').name
                    => (gn2 = gn.v /\ an2 = an.v)
             /\ \A g2 \in GroupIds : \A i \in 1..Len(groups[g2].taskLoaders) :
                  LET other == groups[g2]
                      an2 == other.taskLoaders[i].actionName
                  IN  (/\ other.config = group.config
                       /\ PlainName(other.groupName.v)
                       /\ <<other.groupName, an2>> # <<gn, an>>) =>
                        TaskLoaderName(config, other, other.taskLoaders[i])
                          # LastRegistered(host').name]_vars

\* 'less' and 'fonts' use one config object and each has registered its
\* action 'build', under two names
C30_Witness ==
  /\ ret.op = "loadTask"
  /\ groups[2].groupName = Str(fonts)
  /\ groups[2].config = groups[1].config
  /\ Len(host) = 2
  /\ {host[1].name, host[2].name} =
       {GroupCreateTaskName(config, groups[g], Str(build)) : g \in {1, 2}}
  /\ host[1].name # host[2].name
====
